---------------------------- MODULE Spec2Model ----------------------------
(***************************************************************************)
(* A model of evaluation/gpqa/run_infer.py: the GPQA evaluation of an      *)
(* agent.  Text is modelled as a sequence of one-character strings, so     *)
(* that searching, capturing and stripping are computed character by       *)
(* character as the regular expression engine and str.strip() compute      *)
(* them.  A path is the sequence of its components; os.path.join of a      *)
(* relative component appends it.                                          *)
(*                                                                         *)
(* Specifications:                                                         *)
(*   SpecParse  get_test_result (parse_final_answer, compare_answers) on   *)
(*              bounded texts                                              *)
(*   SpecPrep   convert_instance_dict on bounded raw records               *)
(*   Spec       process_instance, called repeatedly without overlap        *)
(*   SpecConc   process_instance in threads sharing the config object      *)
(***************************************************************************)
EXTENDS Integers, Sequences, FiniteSets, TLC

VARIABLES
    \* ---- get_test_result (lines 76-86): its frame
    gpc,               \* "idle" | "parse" | "compare" | "done" | "raised"
    model_output,      \* argument: the text to parse
    ground_truth,      \* argument: the expected answer
    predicted_answer,  \* local: result of parse_final_answer
    result,            \* local: result of compare_answers
    gexc,              \* the exception get_test_result ended with, None for none
    \* ---- convert_instance_dict (lines 89-114): its frame
    cpc,               \* "raw" | "converted"
    raw_instance,      \* argument `instance`: the dataset's record
    out_instance_dict, \* local, returned
    \* ---- the process
    config,            \* opendevin.core.config.config: the two workspace fields
    fs,                \* the directories that exist
    files,             \* the regular files that exist
    pid,               \* os.getpid()
    debug,             \* __debug__: whether assert statements are executed
    error_log,         \* the messages logged with logger.error
    \* ---- process_instance (lines 117-242): its frame
    pc,                \* the statement process_instance is at
    frame,             \* its arguments and locals, by their names
    exc,               \* the exception in flight, None when there is none
    \* ---- what the collaborators and the caller see
    agent_calls,       \* the run_agent_controller invocations of this call
    outcome,           \* what the caller got: pending, a value or an exception
    entry,             \* config and error_log as they were when the call started
    mkdir_existed,     \* whether mkdir found the directory present
    \* ---- process_instance in threads of the process
    tpc,               \* the statement each thread is at
    tframe,            \* each thread's locals
    overlapped         \* whether two threads were ever between save and restore

gtrVars == <<gpc, model_output, ground_truth, predicted_answer, result, gexc>>

prepVars == <<cpc, raw_instance, out_instance_dict>>

envVars == <<config, fs, files, pid, debug, error_log>>

runVars == <<pc, frame, exc, agent_calls, outcome, entry, mkdir_existed>>

procVars == <<envVars, runVars>>

concVars == <<tpc, tframe, overlapped>>

vars == <<gtrVars, prepVars, procVars, concVars>>

\* Python's None, where the other values are strings
None == "None"

\* Python's None, where the other values are texts
NoneText == <<"None">>

\* Python's None, where the other values are terminal states
NoneState == [is_none |-> TRUE]

\* A local that is not bound yet, where its values are sequences or booleans
Unset == <<"unset">>

\* A local that is not bound yet, where its values are records
UnsetRec == [unbound |-> TRUE]

\* The least element of a set of integers
SetMin(S) == CHOOSE x \in S : \A y \in S : x <= y

----------------------------------------------------------------------------
(* Text *)

\* The opening literal of the pattern on line 62: <<FINAL_ANSWER||
OPEN == <<"<","<","F","I","N","A","L","_","A","N","S","W","E","R","|","|">>

\* The closing literal of the pattern on line 62: ||FINAL_ANSWER>>
CLOSE == <<"|","|","F","I","N","A","L","_","A","N","S","W","E","R",">",">">>

\* The string returned on line 68.
SENTINEL ==
    <<"N","o"," ","f","i","n","a","l"," ","a","n","s","w","e","r"," ",
      "f","o","u","n","d"," ","i","n"," ","t","h","e"," ",
      "p","r","o","v","i","d","e","d"," ","s","t","r","i","n","g",".">>

\* re.DOTALL on line 62.
DOTALL == TRUE

\* The characters str.strip() removes besides the space and the escapes \t,
\* \n, \f, \r: each of these strings holds the one character itself.
VT == ""    \* U+000B, line tabulation
FS == ""    \* U+001C, file separator
GS == ""    \* U+001D, group separator
RS == ""    \* U+001E, record separator
US == ""    \* U+001F, unit separator
NEL == ""   \* U+0085, next line
NBSP == " "  \* U+00A0, no-break space
OGHAM_SPACE_MARK == " "  \* U+1680

\* The whitespace a string of this language cannot hold, each character
\* named by its code point: U+2000-U+200A, U+2028, U+2029, U+202F, U+205F,
\* U+3000.
WideWhitespace ==
    {"U+2000", "U+2001", "U+2002", "U+2003", "U+2004", "U+2005", "U+2006",
     "U+2007", "U+2008", "U+2009", "U+200A", "U+2028", "U+2029", "U+202F",
     "U+205F", "U+3000"}

\* The characters str.strip() removes (line 66): those of str.isspace().
Whitespace ==
    {"\t", "\n", VT, "\f", "\r", FS, GS, RS, US, " ", NEL, NBSP,
     OGHAM_SPACE_MARK} \cup WideWhitespace

\* Whether the literal lit occurs in text at (1-based) position i.
LiteralAt(text, lit, i) ==
    /\ i >= 1
    /\ i + Len(lit) - 1 <= Len(text)
    /\ SubSeq(text, i, i + Len(lit) - 1) = lit

\* Whether '.' matches the character c.
DotMatches(c) == DOTALL \/ c # "\n"

\* The lazy group (.*?) starting at position from, having consumed k
\* characters: the least k' >= k such that the closing literal follows the
\* capture, or -1 when the group cannot be extended that far.
RECURSIVE LazyGroup(_, _, _)
LazyGroup(text, from, k) ==
    IF LiteralAt(text, CLOSE, from + k) THEN k
    ELSE IF from + k > Len(text) THEN -1
    ELSE IF ~DotMatches(text[from + k]) THEN -1
    ELSE LazyGroup(text, from, k + 1)

NoMatch == [found |-> FALSE, group1 |-> <<>>]

\* pattern.search: the match at the leftmost start position, tried from s on.
RECURSIVE SearchFrom(_, _)
SearchFrom(text, s) ==
    IF s > Len(text) THEN NoMatch
    ELSE IF LiteralAt(text, OPEN, s)
         THEN LET from == s + Len(OPEN)
                  k    == LazyGroup(text, from, 0)
              IN  IF k >= 0
                  THEN [found |-> TRUE, group1 |-> SubSeq(text, from, from + k - 1)]
                  ELSE SearchFrom(text, s + 1)
         ELSE SearchFrom(text, s + 1)

RECURSIVE LStrip(_)
LStrip(s) ==
    IF s # <<>> /\ Head(s) \in Whitespace THEN LStrip(Tail(s)) ELSE s

RECURSIVE RStrip(_)
RStrip(s) ==
    IF s # <<>> /\ s[Len(s)] \in Whitespace
    THEN RStrip(SubSeq(s, 1, Len(s) - 1))
    ELSE s

\* A plausible slip: only the leading whitespace is removed.
StripLeadingOnly(s) == LStrip(s)

\* str.strip()
Strip(s) == RStrip(LStrip(s))

\* line 63: pattern.search raises TypeError for an argument that is not a
\* string (None for no error)
SearchError(final_answer) ==
    IF final_answer = NoneText THEN "TypeError" ELSE None

\* parse_final_answer, lines 55-68, for a string
parse_final_answer(final_answer) ==
    LET match == SearchFrom(final_answer, 1)
    IN  IF match.found THEN Strip(match.group1) ELSE SENTINEL

\* A plausible slip: letters compared without regard to case.
Upper(c) == IF c = "a" THEN "A" ELSE IF c = "b" THEN "B"
            ELSE IF c = "c" THEN "C" ELSE IF c = "d" THEN "D" ELSE c

CompareIgnoringCase(predicted, truth) ==
    /\ Len(predicted) = Len(truth)
    /\ \A i \in 1..Len(truth) : Upper(predicted[i]) = Upper(truth[i])

\* compare_answers, lines 71-73
compare_answers(predicted, truth) == predicted = truth

----------------------------------------------------------------------------
(* get_test_result, lines 76-86, as two steps *)

\* line 81: parse_final_answer returns the answer, or its exception leaves
\* get_test_result
GtrParse ==
    /\ gpc = "parse"
    /\ IF SearchError(model_output) # None
       THEN /\ gexc' = SearchError(model_output)
            /\ gpc' = "raised"
            /\ UNCHANGED predicted_answer
       ELSE /\ predicted_answer' = parse_final_answer(model_output)
            /\ gpc' = "compare"
            /\ UNCHANGED gexc
    /\ UNCHANGED <<model_output, ground_truth, result>>
    /\ UNCHANGED <<prepVars, procVars, concVars>>

\* lines 84-86
GtrCompare ==
    /\ gpc = "compare"
    /\ result' = compare_answers(predicted_answer, ground_truth)
    /\ gpc' = "done"
    /\ UNCHANGED <<model_output, ground_truth, predicted_answer, gexc>>
    /\ UNCHANGED <<prepVars, procVars, concVars>>

----------------------------------------------------------------------------
(* convert_instance_dict, lines 89-114 *)

\* The number of distinct answer texts a raw record draws from; the integer
\* i stands for the i-th text.
NumAnswers == 3

AnswerFields ==
    <<"Correct Answer", "Incorrect Answer 1", "Incorrect Answer 2",
      "Incorrect Answer 3">>

\* chr(), on the code points the index can give.
Chr(n) ==
    CASE n = 64 -> "@" [] n = 65 -> "A" [] n = 66 -> "B" [] n = 67 -> "C"
      [] n = 68 -> "D" [] n = 69 -> "E"

\* x[i], x[j] = x[j], x[i] with 0-based i, j
Swap(x, i, j) ==
    [k \in 1..Len(x) |->
        IF k = i + 1 THEN x[j + 1] ELSE IF k = j + 1 THEN x[i + 1] ELSE x[k]]

\* random.shuffle(x) for a list of four: for i = 3, 2, 1 the element i is
\* exchanged with the element at a random j in 0..i; js is the draws.
Shuffle(x, js) == Swap(Swap(Swap(x, 3, js[3]), 2, js[2]), 1, js[1])

\* list.index: the 0-based position of the first element equal to v.
Index(x, v) == SetMin({k \in 1..Len(x) : x[k] = v}) - 1

\* A plausible slip: the letter is taken from a 1-based position.
LetterOneBased(correct_index) == <<Chr(64 + correct_index)>>

\* lines 108-110: the index (0-3) as a letter (A-D)
CorrectLetter(correct_index) == <<Chr(65 + correct_index)>>

\* lines 93-114, with the draws of the shuffle
ConvertInstanceDict(instance, js) ==
    LET correct_answer == instance["Correct Answer"]
        choices == Shuffle(<<correct_answer,
                             instance["Incorrect Answer 1"],
                             instance["Incorrect Answer 2"],
                             instance["Incorrect Answer 3"]>>, js)
    IN  [question         |-> instance["Question"],
         choices          |-> choices,
         correct_solution |-> CorrectLetter(Index(choices, correct_answer))]

RawRecords ==
    {[f \in {"Question"} \cup {AnswerFields[i] : i \in 1..4} |->
        IF f = "Question" THEN "q" ELSE a[CHOOSE i \in 1..4 : AnswerFields[i] = f]]
     : a \in [1..4 -> 1..NumAnswers]}

Draws == {js \in [1..3 -> 0..3] : \A i \in 1..3 : js[i] <= i}

Convert ==
    /\ cpc = "raw"
    /\ \E js \in Draws :
          out_instance_dict' = ConvertInstanceDict(raw_instance, js)
    /\ cpc' = "converted"
    /\ UNCHANGED raw_instance
    /\ UNCHANGED <<gtrVars, procVars, concVars>>

----------------------------------------------------------------------------
(* process_instance, lines 117-242 *)

\* lines 45-48
AGENT_CLS_TO_FAKE_USER_RESPONSE_FN ==
    [c \in {"CodeActAgent", "MonologueAgent"} |->
        IF c = "CodeActAgent" THEN "codeact_user_response"
        ELSE "monologue_user_response"]

\* lines 50-52
AGENT_CLS_TO_INST_SUFFIX ==
    [c \in {"CodeActAgent"} |-> "report the answer, then run exit"]

\* dict.get(key): None for a key the dict does not hold
Get(dict, key) == IF key \in DOMAIN dict THEN dict[key] ELSE None

\* os.path.join(path, component) for a relative component
Join(path, component) == Append(path, component)

\* A plausible slip: the process id is left out of the path.
WorkspacePathWithoutPid(mount_path, process_id) ==
    Join(mount_path, "_eval_workspace")

\* lines 127-131: <mount>/_eval_workspace/<pid>
WorkspacePath(mount_path, process_id) ==
    Join(Join(mount_path, "_eval_workspace"), ToString(process_id))

\* The operating system refuses nothing.
NoRefusal == [at |-> 0, error |-> None]

\* What the operating system may refuse of a path: nothing, or the directory
\* of the first `at` components, for want of permission (PermissionError)
\* or for another reason (OSError: no space, a read-only file system).
Refusals(path) ==
    {NoRefusal} \cup
    {[at |-> n, error |-> e] : n \in 1..Len(path),
                              e \in {"PermissionError", "OSError"}}

\* pathlib.Path(path).mkdir(parents, exist_ok) on the directories dirs and
\* the regular files regular: the error raised (None for none) and the
\* directories afterwards.  A regular file above the path ends the lookup
\* (NotADirectoryError); a regular file at the path is FileExistsError
\* whatever exist_ok is; with a refusal and parents, the missing ancestors
\* above the refused directory have been made when the error is raised.
Mkdir(dirs, regular, path, parents, exist_ok, refusal) ==
    LET parent    == SubSeq(path, 1, Len(path) - 1)
        ancestors == {SubSeq(path, 1, n) : n \in 1..(Len(path) - 1)}
        blocked   == {n \in 1..(Len(path) - 1) : SubSeq(path, 1, n) \in regular}
    IN  IF refusal.at > 0 /\ \A n \in blocked : n >= refusal.at
        THEN [error |-> refusal.error,
              dirs  |-> dirs \cup (IF parents
                                   THEN {a \in ancestors : Len(a) < refusal.at}
                                   ELSE {})]
        ELSE IF blocked # {}
        THEN [error |-> "NotADirectoryError", dirs |-> dirs]
        ELSE IF path \in regular
        THEN [error |-> "FileExistsError", dirs |-> dirs]
        ELSE IF path \in dirs
        THEN [error |-> IF exist_ok THEN None ELSE "FileExistsError",
              dirs  |-> dirs]
        ELSE IF ~parents /\ parent # <<>> /\ parent \notin dirs
        THEN [error |-> "FileNotFoundError", dirs |-> dirs]
        ELSE [error |-> None,
              dirs  |-> dirs \cup {path} \cup (IF parents THEN ancestors ELSE {})]

\* A plausible slip: both fields are written back from the saved mount path.
RestoreBothFromMount(old_workspace_mount_path, old_workspace_base) ==
    [workspace_mount_path |-> old_workspace_mount_path,
     workspace_base       |-> old_workspace_mount_path]

\* lines 240-241: the config after the finally block
Restored(old_workspace_mount_path, old_workspace_base) ==
    [workspace_mount_path |-> old_workspace_mount_path,
     workspace_base       |-> old_workspace_base]

\* A plausible slip: the suffix is looked up with a default.
SuffixOrEmpty(class_name) ==
    IF class_name \in DOMAIN AGENT_CLS_TO_INST_SUFFIX
    THEN [error |-> None, value |-> AGENT_CLS_TO_INST_SUFFIX[class_name]]
    ELSE [error |-> None, value |-> ""]

\* line 188: AGENT_CLS_TO_INST_SUFFIX[agent.__class__.__name__]
SuffixLookup(class_name) ==
    IF class_name \in DOMAIN AGENT_CLS_TO_INST_SUFFIX
    THEN [error |-> None, value |-> AGENT_CLS_TO_INST_SUFFIX[class_name]]
    ELSE [error |-> "KeyError", value |-> None]

\* lines 167-185: the template with the question and the four choices in
\* their order; nothing is appended yet
Template(instance) ==
    [question |-> instance.question,
     A |-> instance.choices[1], B |-> instance.choices[2],
     C |-> instance.choices[3], D |-> instance.choices[4],
     suffix |-> ""]

\* line 188: instruction += suffix
Instruction(instance, suffix) == [Template(instance) EXCEPT !.suffix = suffix]

\* A plausible slip: the session is named after the process.
AgentCallWithPidAsSid(agent, instruction, metadata, instance, process_id) ==
    [agent |-> agent, instruction |-> instruction,
     max_iterations |-> metadata.max_iterations,
     fake_user_response_fn |-> Get(AGENT_CLS_TO_FAKE_USER_RESPONSE_FN, agent),
     sid |-> process_id]

\* lines 192-200: the arguments of run_agent_controller
AgentCall(agent, instruction, metadata, instance, process_id) ==
    [agent |-> agent, instruction |-> instruction,
     max_iterations |-> metadata.max_iterations,
     fake_user_response_fn |-> Get(AGENT_CLS_TO_FAKE_USER_RESPONSE_FN, agent),
     sid |-> instance.instance_id]

\* A plausible slip: a missing state is read as an empty message.
LastAgentMessageOrEmpty(state) ==
    IF state = NoneState THEN [error |-> None, value |-> <<>>]
    ELSE [error |-> None, value |-> state.last_agent_message]

\* line 206: state.history.get_last_agent_message()
LastAgentMessage(state) ==
    IF state = NoneState THEN [error |-> "AttributeError", value |-> Unset]
    ELSE [error |-> None, value |-> state.last_agent_message]

\* lines 217-234
OutputRecord(instance, instruction, metadata, state, test_result) ==
    [task_id     |-> instance.task_id,
     instance_id |-> instance.instance_id,
     instruction |-> instruction,
     metadata    |-> metadata,
     history     |-> state.history,
     metrics     |-> IF state.metrics # None THEN state.metrics ELSE None,
     error       |-> IF state.last_error \notin {None, ""}
                     THEN state.last_error ELSE None,
     test_result |-> test_result]

\* line 238: raise, which raises the exception the handler caught
Reraised(caught) == caught

\* The locals of a call that has just started.
NewFrame(instance, metadata, reset_logger) ==
    [instance |-> instance, metadata |-> metadata, reset_logger |-> reset_logger,
     agent |-> None, old_workspace_mount_path |-> Unset,
     old_workspace_base |-> Unset, workspace_mount_path |-> Unset,
     instruction |-> UnsetRec, state |-> UnsetRec, final_message |-> Unset,
     test_result |-> Unset, output |-> UnsetRec]

\* The largest instance_id (the dataset's index) an instance has.
MaxInstanceId == 1

\* No call starts once the error log holds this many messages.
MaxErrors == 2

\* os.getpid(), line 131
ProcessId == 4242

\* The letters a correct_solution may be (line 108: index 0-3).
Letters == {<<"A">>, <<"B">>, <<"C">>, <<"D">>}

AgentClasses == {"CodeActAgent", "MonologueAgent", "PlannerAgent"}

\* Prepared instances: lines 265-269 (task_id and instance_id are the index).
Instances ==
    {[instance_id |-> i, task_id |-> i, question |-> "q",
      choices |-> <<"w", "x", "y", "z">>, correct_solution |-> l]
     : i \in 0..MaxInstanceId, l \in Letters}

Metadatas == {[agent_class |-> c, max_iterations |-> "n"] : c \in AgentClasses}

\* The last agent messages a terminal state may hold ("" when there is none).
FinalMessages ==
    { <<>>,
      <<"A">>,
      OPEN \o <<"A">> \o CLOSE,
      OPEN \o <<"a">> \o CLOSE,
      <<"\n">> \o OPEN \o <<" ", "B", VT>> \o CLOSE \o OPEN \o <<"A">> \o CLOSE }

\* The terminal states run_agent_controller may return.
TerminalStates ==
    {[last_agent_message |-> m, history |-> "pairs", metrics |-> x, last_error |-> e]
     : m \in FinalMessages, x \in {None, "metrics"}, e \in {None, "", "stuck"}}

\* The exceptions that are not subclasses of Exception.
BaseExceptions == {"KeyboardInterrupt", "SystemExit", "CancelledError"}

\* The exception e is raised inside the try block: line 236 catches a
\* subclass of Exception; any other goes to the finally block.
Raise(e) ==
    /\ exc' = e
    /\ pc' = IF e \in BaseExceptions THEN "finally" ELSE "except"

\* The caller calls process_instance (line 117); no other call is running.
Call ==
    /\ pc \in {"idle", "returned", "raised"}
    /\ gpc = "idle"
    /\ Len(error_log) < MaxErrors
    /\ \E instance \in Instances, metadata \in Metadatas, reset_logger \in BOOLEAN :
          frame' = NewFrame(instance, metadata, reset_logger)
    /\ pc' = "create_agent"
    /\ exc' = None
    /\ agent_calls' = <<>>
    /\ outcome' = [kind |-> "pending", value |-> None]
    /\ entry' = [config |-> config, error_log |-> error_log]
    /\ mkdir_existed' = FALSE
    /\ UNCHANGED <<envVars, gtrVars, prepVars, concVars>>

\* line 123, before the try: the agent class is found and constructed, or
\* the constructor raises, which nothing in process_instance catches.
CreateAgent ==
    /\ pc = "create_agent"
    /\ \E ok \in BOOLEAN :
          IF ok
          THEN /\ frame' = [frame EXCEPT !.agent = frame.metadata.agent_class]
               /\ pc' = "save"
               /\ UNCHANGED <<exc, outcome>>
          ELSE /\ exc' = "AgentError"
               /\ pc' = "raised"
               /\ outcome' = [kind |-> "raised", value |-> "AgentError"]
               /\ UNCHANGED frame
    /\ UNCHANGED <<agent_calls, entry, mkdir_existed, envVars, gtrVars, prepVars, concVars>>

\* lines 124-125
SaveOld ==
    /\ pc = "save"
    /\ frame' = [frame EXCEPT
                   !.old_workspace_mount_path = config.workspace_mount_path,
                   !.old_workspace_base = config.workspace_base]
    /\ pc' = "workspace"
    /\ UNCHANGED <<exc, agent_calls, outcome, entry, mkdir_existed, envVars,
                   gtrVars, prepVars, concVars>>

\* lines 127-136: the path, the directory, the config repointed; a regular
\* file may stand in the way, and the operating system may refuse the
\* directory or one of its ancestors.
Workspace ==
    /\ pc = "workspace"
    /\ LET path == WorkspacePath(config.workspace_mount_path, pid)
       IN  \E refusal \in Refusals(path) :
              LET made == Mkdir(fs, files, path, TRUE, TRUE, refusal)
              IN
              IF made.error # None
              THEN /\ Raise(made.error)
                   /\ frame' = [frame EXCEPT !.workspace_mount_path = path]
                   /\ fs' = made.dirs
                   /\ UNCHANGED <<config, mkdir_existed>>
              ELSE /\ frame' = [frame EXCEPT !.workspace_mount_path = path]
                   /\ mkdir_existed' = (path \in fs)
                   /\ fs' = made.dirs
                   /\ config' = [workspace_base       |-> path,
                                 workspace_mount_path |-> path]
                   /\ pc' = "logger"
                   /\ UNCHANGED exc
    /\ UNCHANGED <<files, pid, debug, error_log, agent_calls, outcome, entry,
                   gtrVars, prepVars, concVars>>

\* lines 139-163: with reset_logger the handlers are replaced by the
\* instance's file handler, whose log file may fail to open.
LoggerSetup ==
    /\ pc = "logger"
    /\ IF frame.reset_logger
       THEN \E opened \in BOOLEAN :
               IF opened
               THEN /\ pc' = "instruction"
                    /\ UNCHANGED exc
               ELSE Raise("OSError")
       ELSE /\ pc' = "instruction"
            /\ UNCHANGED exc
    /\ UNCHANGED <<envVars, frame, agent_calls, outcome, entry, mkdir_existed,
                   gtrVars, prepVars, concVars>>

\* lines 167-188: instruction is bound to the template (line 167), then
\* the suffix is looked up and appended (line 188)
BuildInstruction ==
    /\ pc = "instruction"
    /\ LET suffix == SuffixLookup(frame.agent)
       IN  IF suffix.error # None
           THEN /\ Raise(suffix.error)
                /\ frame' = [frame EXCEPT !.instruction = Template(frame.instance)]
           ELSE /\ frame' = [frame EXCEPT
                       !.instruction = Instruction(frame.instance, suffix.value)]
                /\ pc' = "run_agent"
                /\ UNCHANGED exc
    /\ UNCHANGED <<envVars, agent_calls, outcome, entry, mkdir_existed, gtrVars,
                   prepVars, concVars>>

\* lines 191-200: run_agent_controller is entered
InvokeAgent ==
    /\ pc = "run_agent"
    /\ agent_calls' = Append(agent_calls,
          AgentCall(frame.agent, frame.instruction, frame.metadata,
                    frame.instance, pid))
    /\ pc' = "agent_running"
    /\ UNCHANGED <<frame, exc, outcome, entry, mkdir_existed, envVars, gtrVars,
                   prepVars, concVars>>

\* line 191: the agent loop ends with a terminal state, with None, or
\* raises, a subclass of Exception or not
AgentEnds ==
    /\ pc = "agent_running"
    /\ \E raised \in {None, "AgentLoopError"} \cup BaseExceptions :
          IF raised # None
          THEN /\ Raise(raised)
               /\ UNCHANGED frame
          ELSE /\ \E s \in TerminalStates \cup {NoneState} :
                     frame' = [frame EXCEPT !.state = s]
               /\ pc' = "assert_state"
               /\ UNCHANGED exc
    /\ UNCHANGED <<envVars, agent_calls, outcome, entry, mkdir_existed, gtrVars,
                   prepVars, concVars>>

\* line 202
AssertState ==
    /\ pc = "assert_state"
    /\ IF debug /\ frame.state = NoneState
       THEN Raise("AssertionError")
       ELSE /\ pc' = "extract"
            /\ UNCHANGED exc
    /\ UNCHANGED <<envVars, frame, agent_calls, outcome, entry, mkdir_existed,
                   gtrVars, prepVars, concVars>>

\* lines 206-208
Extract ==
    /\ pc = "extract"
    /\ LET message == LastAgentMessage(frame.state)
       IN  IF message.error # None
           THEN /\ Raise(message.error)
                /\ UNCHANGED frame
           ELSE /\ frame' = [frame EXCEPT !.final_message = message.value]
                /\ pc' = "score"
                /\ UNCHANGED exc
    /\ UNCHANGED <<envVars, agent_calls, outcome, entry, mkdir_existed, gtrVars,
                   prepVars, concVars>>

\* line 210: get_test_result(final_message, instance.correct_solution) is
\* entered
ScoreCall ==
    /\ pc = "score"
    /\ gpc = "idle"
    /\ gpc' = "parse"
    /\ model_output' = frame.final_message
    /\ ground_truth' = frame.instance.correct_solution
    /\ UNCHANGED <<predicted_answer, result, gexc>>
    /\ pc' = "scoring"
    /\ UNCHANGED <<envVars, frame, exc, agent_calls, outcome, entry,
                   mkdir_existed, prepVars, concVars>>

\* line 210: get_test_result returns and test_result is bound, or its
\* exception is raised in the try block
ScoreReturn ==
    /\ pc = "scoring"
    /\ gpc \in {"done", "raised"}
    /\ IF gpc = "raised"
       THEN /\ Raise(gexc)
            /\ UNCHANGED frame
       ELSE /\ frame' = [frame EXCEPT !.test_result = result]
            /\ pc' = "assemble"
            /\ UNCHANGED exc
    /\ gpc' = "idle"
    /\ model_output' = Unset
    /\ ground_truth' = Unset
    /\ predicted_answer' = Unset
    /\ result' = Unset
    /\ gexc' = None
    /\ UNCHANGED <<envVars, agent_calls, outcome, entry, mkdir_existed,
                   prepVars, concVars>>

\* lines 214-234: the record is assembled; metadata.model_dump() or the
\* history's conversion may raise.
Assemble ==
    /\ pc = "assemble"
    /\ \E raises \in BOOLEAN :
          IF frame.state = NoneState
          THEN /\ Raise("ValueError")
               /\ UNCHANGED frame
          ELSE IF raises
          THEN /\ Raise("RecordError")
               /\ UNCHANGED frame
          ELSE /\ frame' = [frame EXCEPT !.output =
                      OutputRecord(frame.instance, frame.instruction,
                                   frame.metadata, frame.state, frame.test_result)]
               /\ pc' = "finally"
               /\ UNCHANGED exc
    /\ UNCHANGED <<envVars, agent_calls, outcome, entry, mkdir_existed, gtrVars,
                   prepVars, concVars>>

\* lines 236-238: the handler logs and raises the exception again
Except ==
    /\ pc = "except"
    /\ error_log' = Append(error_log, "Process instance failed")
    /\ exc' = Reraised(exc)
    /\ pc' = "finally"
    /\ UNCHANGED <<config, fs, files, pid, debug, frame, agent_calls, outcome,
                   entry, mkdir_existed, gtrVars, prepVars, concVars>>

\* lines 239-242: the config is restored; then the exception in flight (the
\* one the handler raised again on line 238, or one line 236 does not catch)
\* leaves the function, or the output is returned
Finally ==
    /\ pc = "finally"
    /\ config' = Restored(frame.old_workspace_mount_path, frame.old_workspace_base)
    /\ IF exc # None
           THEN /\ pc' = "raised"
                /\ outcome' = [kind |-> "raised", value |-> exc]
           ELSE /\ pc' = "returned"
                /\ outcome' = [kind |-> "returned", value |-> frame.output]
    /\ UNCHANGED <<fs, files, pid, debug, error_log, frame, exc, agent_calls,
                   entry, mkdir_existed, gtrVars, prepVars, concVars>>

\* get_test_result is not running.
GtrIdle ==
    /\ gpc = "idle"
    /\ model_output = Unset
    /\ ground_truth = Unset
    /\ predicted_answer = Unset
    /\ result = Unset
    /\ gexc = None

\* convert_instance_dict has no record.
PrepIdle ==
    /\ cpc = "raw"
    /\ raw_instance = UnsetRec
    /\ out_instance_dict = UnsetRec

\* The process before the first call.  Nothing stands under the mount path
\* yet, or the mount path is a regular file, or a regular file stands where
\* the workspace directory is to be (in the directories above it).
ProcIdle ==
    /\ config \in {[workspace_mount_path |-> m, workspace_base |-> <<"ws">>]
                   : m \in {<<"ws">>, <<"mnt">>}}
    /\ pid = ProcessId
    /\ files \in {{}, {config.workspace_mount_path},
                  {WorkspacePath(config.workspace_mount_path, pid)}}
    /\ fs = IF WorkspacePath(config.workspace_mount_path, pid) \in files
            THEN {config.workspace_mount_path,
                  Join(config.workspace_mount_path, "_eval_workspace")}
            ELSE {}
    /\ debug \in BOOLEAN
    /\ error_log = <<>>
    /\ pc = "idle"
    /\ frame = UnsetRec
    /\ exc = None
    /\ agent_calls = <<>>
    /\ outcome = [kind |-> "pending", value |-> None]
    /\ entry = [config |-> config, error_log |-> error_log]
    /\ mkdir_existed = FALSE

\* The process while the model looks at one function alone.
ProcAtRest ==
    /\ ProcIdle
    /\ debug
    /\ config.workspace_mount_path = <<"mnt">>
    /\ files = {}

\* No thread runs process_instance.
ConcIdle ==
    /\ tpc = <<>>
    /\ tframe = <<>>
    /\ overlapped = FALSE

Init ==
    /\ ProcIdle
    /\ GtrIdle
    /\ PrepIdle
    /\ ConcIdle

Next ==
    \/ Call \/ CreateAgent \/ SaveOld \/ Workspace \/ LoggerSetup
    \/ BuildInstruction \/ InvokeAgent \/ AgentEnds \/ AssertState \/ Extract
    \/ ScoreCall \/ GtrParse \/ GtrCompare \/ ScoreReturn \/ Assemble
    \/ Except \/ Finally

Spec == Init /\ [][Next]_vars

----------------------------------------------------------------------------
(* SpecParse: get_test_result on every text built from at most MaxParts   *)
(* pieces and on None, and every ground-truth letter                       *)

MaxParts == 5

\* A run of the whitespace characters that are neither the space nor an
\* escape.
OtherWhitespace == <<VT, FS, GS, RS, US, NEL, NBSP, OGHAM_SPACE_MARK>>

Pieces == {OPEN, CLOSE, <<"A">>, <<"a">>, <<" ">>, <<"\n">>, OtherWhitespace}

RECURSIVE Texts(_)
Texts(n) ==
    IF n = 0 THEN {<<>>}
    ELSE LET shorter == Texts(n - 1)
         IN  shorter \cup {t \o p : t \in shorter, p \in Pieces}

ParseInit ==
    /\ PrepIdle
    /\ ProcAtRest
    /\ ConcIdle
    /\ gpc = "parse"
    /\ model_output \in Texts(MaxParts) \cup {NoneText}
    /\ ground_truth \in Letters
    /\ predicted_answer = Unset
    /\ result = Unset
    /\ gexc = None

\* The same stored message and ground truth are scored again.
GtrRerun ==
    /\ gpc \in {"done", "raised"}
    /\ gpc' = "parse"
    /\ predicted_answer' = Unset
    /\ result' = Unset
    /\ gexc' = None
    /\ UNCHANGED <<model_output, ground_truth>>
    /\ UNCHANGED <<prepVars, procVars, concVars>>

ParseNext == GtrParse \/ GtrCompare \/ GtrRerun

SpecParse == ParseInit /\ [][ParseNext]_vars

----------------------------------------------------------------------------
(* SpecPrep: convert_instance_dict on every raw record over NumAnswers    *)
(* answer texts, and every sequence of draws of the shuffle              *)

PrepInit ==
    /\ GtrIdle
    /\ cpc = "raw"
    /\ raw_instance \in RawRecords
    /\ out_instance_dict = UnsetRec
    /\ ProcAtRest
    /\ ConcIdle

PrepNext == Convert

SpecPrep == PrepInit /\ [][PrepNext]_vars

----------------------------------------------------------------------------
(* SpecConc: process_instance in two threads of one process, which         *)
(* share config, the file system, the log and the agent loop.  Each read   *)
(* and each write of a config field is one step; a thread that raises is   *)
(* next seen at line 240, after the handler (if it catches) has logged.    *)

\* The two evaluations that run in threads of the process.
Threads == {1, 2}

\* The statements between the first save and the last restore.
InWindow(at) ==
    at \in {"save_base", "path", "mkdir", "set_base", "set_mount", "body",
            "agent_running", "finish", "restore_mount", "restore_base"}

\* Thread t moves to statement `at` with locals `locals`.
Goto(t, at, locals) ==
    /\ tpc' = [tpc EXCEPT ![t] = at]
    /\ tframe' = [tframe EXCEPT ![t] = locals]
    /\ overlapped' =
          (overlapped \/ (InWindow(at) /\ \E u \in Threads \ {t} : InWindow(tpc[u])))

\* Thread t goes on to statement `at` without an exception.
T_Continue(t, at, locals) ==
    /\ Goto(t, at, locals)
    /\ UNCHANGED error_log

\* Thread t raises e inside the try block: the handler of lines 236-238
\* logs a subclass of Exception and raises it again, any other exception
\* passes it; the thread is at line 240.
T_Raise(t, e) ==
    /\ error_log' = IF e \in BaseExceptions THEN error_log
                    ELSE Append(error_log, "Process instance failed")
    /\ Goto(t, "restore_mount", [tframe[t] EXCEPT !.raised = TRUE])

\* The locals of thread t after line 123.
ThreadFrame(t) ==
    [instance |-> [instance_id |-> (t - 1) % (MaxInstanceId + 1),
                   task_id |-> (t - 1) % (MaxInstanceId + 1),
                   question |-> "q", choices |-> <<"w", "x", "y", "z">>,
                   correct_solution |-> <<"A">>],
     metadata |-> [agent_class |-> "CodeActAgent", max_iterations |-> "n"],
     reset_logger |-> TRUE, agent |-> "CodeActAgent",
     old_workspace_mount_path |-> Unset, old_workspace_base |-> Unset,
     workspace_mount_path |-> Unset, raised |-> FALSE]

\* line 124
T_SaveMount(t) ==
    /\ tpc[t] = "save_mount"
    /\ Goto(t, "save_base",
            [tframe[t] EXCEPT !.old_workspace_mount_path = config.workspace_mount_path])
    /\ UNCHANGED <<gtrVars, prepVars, procVars>>

\* line 125
T_SaveBase(t) ==
    /\ tpc[t] = "save_base"
    /\ Goto(t, "path",
            [tframe[t] EXCEPT !.old_workspace_base = config.workspace_base])
    /\ UNCHANGED <<gtrVars, prepVars, procVars>>

\* lines 127-131
T_Path(t) ==
    /\ tpc[t] = "path"
    /\ Goto(t, "mkdir",
            [tframe[t] EXCEPT !.workspace_mount_path =
                WorkspacePath(config.workspace_mount_path, pid)])
    /\ UNCHANGED <<gtrVars, prepVars, procVars>>

\* line 132
T_Mkdir(t) ==
    /\ tpc[t] = "mkdir"
    /\ \E refusal \in Refusals(tframe[t].workspace_mount_path) :
          LET made == Mkdir(fs, files, tframe[t].workspace_mount_path, TRUE, TRUE,
                            refusal)
          IN  /\ fs' = made.dirs
              /\ IF made.error # None
                 THEN T_Raise(t, made.error)
                 ELSE T_Continue(t, "set_base", tframe[t])
    /\ UNCHANGED <<config, files, pid, debug, runVars, gtrVars, prepVars>>

\* line 135
T_SetBase(t) ==
    /\ tpc[t] = "set_base"
    /\ config' = [config EXCEPT !.workspace_base = tframe[t].workspace_mount_path]
    /\ Goto(t, "set_mount", tframe[t])
    /\ UNCHANGED <<fs, files, pid, debug, error_log, runVars, gtrVars, prepVars>>

\* line 136
T_SetMount(t) ==
    /\ tpc[t] = "set_mount"
    /\ config' = [config EXCEPT !.workspace_mount_path = tframe[t].workspace_mount_path]
    /\ Goto(t, "body", tframe[t])
    /\ UNCHANGED <<fs, files, pid, debug, error_log, runVars, gtrVars, prepVars>>

\* lines 139-200: the logger (its log file may fail to open), the
\* instruction, and run_agent_controller is entered
T_Body(t) ==
    /\ tpc[t] = "body"
    /\ LET suffix == SuffixLookup(tframe[t].agent)
       IN  \E opened \in BOOLEAN :
              IF tframe[t].reset_logger /\ ~opened
              THEN /\ T_Raise(t, "OSError")
                   /\ UNCHANGED agent_calls
              ELSE IF suffix.error # None
              THEN /\ T_Raise(t, suffix.error)
                   /\ UNCHANGED agent_calls
              ELSE /\ agent_calls' = Append(agent_calls,
                         AgentCall(tframe[t].agent,
                                   Instruction(tframe[t].instance, suffix.value),
                                   tframe[t].metadata, tframe[t].instance, pid))
                   /\ T_Continue(t, "agent_running", tframe[t])
    /\ UNCHANGED <<config, fs, files, pid, debug, pc, frame, exc, outcome, entry,
                   mkdir_existed, gtrVars, prepVars>>

\* line 191: the agent loop of the thread returns or raises
T_AgentEnds(t) ==
    /\ tpc[t] = "agent_running"
    /\ \E raised \in {None, "AgentLoopError"} \cup BaseExceptions :
          IF raised # None
          THEN T_Raise(t, raised)
          ELSE T_Continue(t, "finish", tframe[t])
    /\ UNCHANGED <<config, fs, files, pid, debug, runVars, gtrVars, prepVars>>

\* lines 202-234: the assertion, the last message, its score and the
\* record, any of which may raise
T_Finish(t) ==
    /\ tpc[t] = "finish"
    /\ \E raised \in {None, "AssertionError", "AttributeError", "RecordError"} :
          IF raised # None
          THEN T_Raise(t, raised)
          ELSE T_Continue(t, "restore_mount", tframe[t])
    /\ UNCHANGED <<config, fs, files, pid, debug, runVars, gtrVars, prepVars>>

\* line 240
T_RestoreMount(t) ==
    /\ tpc[t] = "restore_mount"
    /\ config' = [config EXCEPT !.workspace_mount_path =
          Restored(tframe[t].old_workspace_mount_path,
                   tframe[t].old_workspace_base).workspace_mount_path]
    /\ Goto(t, "restore_base", tframe[t])
    /\ UNCHANGED <<fs, files, pid, debug, error_log, runVars, gtrVars, prepVars>>

\* line 241
T_RestoreBase(t) ==
    /\ tpc[t] = "restore_base"
    /\ config' = [config EXCEPT !.workspace_base =
          Restored(tframe[t].old_workspace_mount_path,
                   tframe[t].old_workspace_base).workspace_base]
    /\ Goto(t, "exited", tframe[t])
    /\ UNCHANGED <<fs, files, pid, debug, error_log, runVars, gtrVars, prepVars>>

ConcInit ==
    /\ ProcIdle
    /\ debug
    /\ GtrIdle
    /\ PrepIdle
    /\ tpc = [t \in Threads |-> "save_mount"]
    /\ tframe = [t \in Threads |-> ThreadFrame(t)]
    /\ overlapped = FALSE

ConcNext ==
    \E t \in Threads :
        \/ T_SaveMount(t) \/ T_SaveBase(t) \/ T_Path(t) \/ T_Mkdir(t)
        \/ T_SetBase(t) \/ T_SetMount(t) \/ T_Body(t) \/ T_AgentEnds(t)
        \/ T_Finish(t) \/ T_RestoreMount(t) \/ T_RestoreBase(t)

SpecConc == ConcInit /\ [][ConcNext]_vars

----------------------------------------------------------------------------
(* The claims about parse_final_answer and get_test_result *)

\* Whether lit occurs in text at position i, character by character.
Occurs(text, lit, i) ==
    \A k \in 1..Len(lit) : i + k - 1 <= Len(text) /\ text[i + k - 1] = lit[k]

SetMax(S) == CHOOSE x \in S : \A y \in S : x >= y

\* s without its leading and trailing whitespace: from its first to its last
\* character that is not whitespace.
Trimmed(s) ==
    LET solid == {i \in 1..Len(s) : s[i] \notin Whitespace}
    IN  IF solid = {} THEN <<>> ELSE SubSeq(s, SetMin(solid), SetMax(solid))

\* An opening marker followed later by a closing marker.
HasMarker(text) ==
    \E i \in 1..Len(text) :
        /\ Occurs(text, OPEN, i)
        /\ \E j \in (i + Len(OPEN))..Len(text) : Occurs(text, CLOSE, j)

\* The text between the first opening and the nearest closing after it.
FirstCapture(text) ==
    LET i0 == SetMin({i \in 1..Len(text) : Occurs(text, OPEN, i)})
        j0 == SetMin({j \in (i0 + Len(OPEN))..Len(text) : Occurs(text, CLOSE, j)})
    IN  SubSeq(text, i0 + Len(OPEN), j0 - 1)

\* C4: parse_final_answer does not raise for a text, and returns, for a text
\* holding an opening marker
\* followed later by a closing marker, the text between the first opening and
\* the nearest following closing (newlines included) without its leading and
\* trailing whitespace, and the sentinel for every other text.
C4_ParseFinalAnswer ==
    /\ model_output \notin {Unset, NoneText} => gpc # "raised"
    /\ gpc \in {"compare", "done"} =>
          predicted_answer =
              IF HasMarker(model_output)
              THEN Trimmed(FirstCapture(model_output))
              ELSE SENTINEL

\* A capture spanning two lines, with whitespace other than the space around
\* the letter: the answer is the bare letter.
C4_Witness ==
    /\ gpc = "compare"
    /\ model_output = OPEN \o <<"\n", "A">> \o OtherWhitespace \o CLOSE
    /\ predicted_answer = <<"A">>

\* C5: get_test_result is true exactly when the message holds a marker whose
\* first occurrence, trimmed, is character for character the ground-truth
\* letter; every other message (no marker, another case, extra text) scores
\* false and none raises, also when the same message is scored again.
C5_GetTestResult ==
    /\ gpc = "raised" => model_output = NoneText
    /\ gpc = "done" =>
          /\ result \in BOOLEAN
          /\ result = TRUE <=>
                /\ HasMarker(model_output)
                /\ Trimmed(FirstCapture(model_output)) = ground_truth

\* The lower-case letter of the ground truth is scored false.
C5_Witness ==
    /\ gpc = "done"
    /\ ground_truth = <<"A">>
    /\ model_output = <<" ">> \o OPEN \o <<" ", "a">> \o CLOSE
    /\ result = FALSE

----------------------------------------------------------------------------
(* The claim about convert_instance_dict *)

\* The four answers of the record, in the order of line 96.
SourceAnswers == [i \in 1..4 |-> raw_instance[AnswerFields[i]]]

LetterIndex(letter) ==
    CASE letter = <<"A">> -> 0 [] letter = <<"B">> -> 1
      [] letter = <<"C">> -> 2 [] letter = <<"D">> -> 3

\* C3: the choices are a permutation of [correct, incorrect 1, incorrect 2,
\* incorrect 3], and the letter is one of A-D and names a position of the
\* choices that holds the text of the correct answer, for records with equal
\* answer texts too.
C3_ConvertInstanceDict ==
    cpc = "converted" =>
        LET choices == out_instance_dict.choices
            letter  == out_instance_dict.correct_solution
        IN  /\ \E p \in Permutations(1..4) :
                  \A i \in 1..4 : choices[i] = SourceAnswers[p[i]]
            /\ letter \in Letters
            /\ choices[LetterIndex(letter) + 1] = raw_instance["Correct Answer"]

\* A record whose correct text is also an incorrect answer, shuffled so that
\* the correct answer's letter is not A.
C3_Witness ==
    /\ cpc = "converted"
    /\ raw_instance["Correct Answer"] = raw_instance["Incorrect Answer 2"]
    /\ raw_instance["Correct Answer"] # raw_instance["Incorrect Answer 1"]
    /\ out_instance_dict.correct_solution = <<"C">>

----------------------------------------------------------------------------
(* The claims about process_instance called without overlap *)

Exited == pc \in {"returned", "raised"}

\* C1: after each call has exited, by return or by an exception raised at
\* any step of the try block, each of the two config fields holds the value
\* it had when that call started.
C1_ConfigRestored ==
    Exited =>
        /\ config.workspace_mount_path = entry.config.workspace_mount_path
        /\ config.workspace_base = entry.config.workspace_base

\* A later call of the sequence was repointed (to a path unlike both saved
\* values, which differ), its agent loop raised, and the call has exited.
C1_Witness ==
    /\ pc = "raised"
    /\ exc = "AgentLoopError"
    /\ Len(entry.error_log) >= 1
    /\ frame.workspace_mount_path # Unset
    /\ entry.config.workspace_mount_path # entry.config.workspace_base
    /\ config = entry.config

\* C2: a failure is never swallowed.  When a step of a call raised, the
\* error was logged, the caller got that same error and there is no output
\* record; when a call has returned, no step raised, every step (workspace
\* setup, instruction build, agent run, extraction, scoring, record
\* assembly) was done and the caller got the assembled record.
C2_NeverSwallows ==
    /\ pc = "raised" =>
          /\ exc # None
          /\ outcome = [kind |-> "raised", value |-> exc]
          /\ frame.output = UnsetRec
          /\ error_log = Append(entry.error_log, "Process instance failed")
    /\ pc = "returned" =>
          /\ exc = None
          /\ error_log = entry.error_log
          /\ frame.workspace_mount_path # Unset
          /\ frame.instruction =
                Instruction(frame.instance, AGENT_CLS_TO_INST_SUFFIX[frame.agent])
          /\ Len(agent_calls) = 1
          /\ frame.state \in TerminalStates
          /\ frame.final_message = frame.state.last_agent_message
          /\ frame.test_result \in BOOLEAN
          /\ frame.output # UnsetRec
          /\ outcome = [kind |-> "returned", value |-> frame.output]

\* The agent loop of this call returned None.
NullState == pc # "idle" /\ frame.state = NoneState

\* C6: when the agent loop returned None, the call fails before any
\* extraction or scoring: no final message is read, get_test_result is not
\* entered, there is no output record, the call never returns a value, and
\* once it has exited the caller holds the exception and the config is
\* restored.
C6_NullStateFatal ==
    NullState =>
        /\ pc \in {"assert_state", "extract", "except", "finally", "raised"}
        /\ pc = "extract" => ~debug
        /\ gpc = "idle"
        /\ frame.final_message = Unset
        /\ frame.output = UnsetRec
        /\ pc \in {"except", "finally", "raised"} =>
              exc = (IF debug THEN "AssertionError" ELSE "AttributeError")
        /\ pc = "raised" =>
              /\ outcome = [kind |-> "raised", value |-> exc]
              /\ config = entry.config

\* The agent loop returned None, the assertion failed and the call exited.
C6_Witness ==
    /\ NullState
    /\ pc = "raised"
    /\ exc = "AssertionError"
    /\ Len(agent_calls) = 1
    /\ config = entry.config

\* The agent of this call is of a class with no instruction suffix.
NoSuffix ==
    /\ pc # "idle"
    /\ frame.agent # None
    /\ frame.agent \notin DOMAIN AGENT_CLS_TO_INST_SUFFIX

C7_Inv ==
    /\ "MonologueAgent" \in DOMAIN AGENT_CLS_TO_FAKE_USER_RESPONSE_FN
    /\ "MonologueAgent" \notin DOMAIN AGENT_CLS_TO_INST_SUFFIX
    /\ NoSuffix =>
          /\ pc \in {"save", "workspace", "logger", "instruction", "except",
                     "finally", "raised"}
          /\ agent_calls = <<>>
          /\ frame.instruction \in {UnsetRec, Template(frame.instance)}
          /\ frame.output = UnsetRec
          /\ pc = "raised" => outcome = [kind |-> "raised", value |-> exc]

C7_Step ==
    NoSuffix /\ pc = "instruction" =>
        /\ pc' = "except"
        /\ exc' = "KeyError"
        /\ frame'.instruction = Template(frame.instance)

\* C7: for an agent class without an entry in the suffix registry
\* (MonologueAgent, which has a synthetic user response, is one) building
\* the instruction raises KeyError with the instruction left without a
\* suffix: the agent loop is not invoked, no output record is produced and
\* the caller gets the exception.
C7_UnknownAgentClass == [](C7_Inv) /\ [][C7_Step]_vars

\* A MonologueAgent call failed on the suffix lookup and has exited.
C7_Witness ==
    /\ pc = "raised"
    /\ frame.agent = "MonologueAgent"
    /\ exc = "KeyError"
    /\ agent_calls = <<>>
    /\ outcome = [kind |-> "raised", value |-> "KeyError"]

\* The state of the driver's state machine (spec 4.6) a call is in.
Phase ==
    CASE pc = "idle" -> "IDLE"
      [] pc \in {"except", "raised"} -> "FAILED"
      [] pc = "finally" -> IF exc = None THEN "DONE" ELSE "FAILED"
      [] pc = "returned" -> "DONE"
      [] pc \in {"create_agent", "save", "workspace"} -> "INIT"
      [] pc \in {"logger", "instruction", "run_agent"} -> "WORKSPACE_READY"
      [] pc \in {"agent_running", "assert_state", "extract", "score"} -> "AGENT_RUNNING"
      [] pc = "scoring" -> IF gpc \in {"parse", "raised"} THEN "AGENT_RUNNING"
                           ELSE IF gpc = "compare" THEN "ANSWER_EXTRACTED"
                           ELSE "SCORED"
      [] pc = "assemble" -> "SCORED"

PhaseOrder ==
    <<"INIT", "WORKSPACE_READY", "AGENT_RUNNING", "ANSWER_EXTRACTED", "SCORED",
      "DONE">>

Rank(phase) == CHOOSE i \in 1..Len(PhaseOrder) : PhaseOrder[i] = phase

\* The score the claim describes: the first marker's capture, trimmed, is
\* the correct letter.
ExpectedScore(message, correct_solution) ==
    /\ HasMarker(message)
    /\ Trimmed(FirstCapture(message)) = correct_solution

C8_Inv ==
    /\ Len(agent_calls) <= 1
    /\ pc = "agent_running" =>
          /\ Len(agent_calls) = 1
          /\ agent_calls[1].sid = frame.instance.instance_id
          /\ frame.workspace_mount_path # Unset
          /\ config.workspace_base = frame.workspace_mount_path
          /\ config.workspace_mount_path = frame.workspace_mount_path
    /\ Phase \in {"ANSWER_EXTRACTED", "SCORED", "DONE"} \/ gpc # "idle" =>
          /\ frame.state \in TerminalStates
          /\ Len(agent_calls) = 1
    /\ pc # "idle" /\ frame.final_message # Unset =>
          frame.state \in TerminalStates
    /\ pc = "returned" =>
          outcome.value.test_result =
              ExpectedScore(frame.state.last_agent_message,
                            frame.instance.correct_solution)

C8_Step ==
    \/ pc \in {"idle", "returned", "raised"} /\ pc' = "create_agent"
    \/ /\ Phase = "FAILED" => Phase' = "FAILED"
       /\ Phase = "DONE" => Phase' = "DONE"
       /\ Phase \notin {"FAILED", "DONE"} =>
             \/ Phase' = "FAILED"
             \/ Rank(Phase') \in {Rank(Phase), Rank(Phase) + 1}

\* C8: a call goes through INIT, WORKSPACE_READY, AGENT_RUNNING,
\* ANSWER_EXTRACTED, SCORED, DONE in this order, one at a time, or ends in
\* FAILED, which it does not leave; the agent loop is invoked at most once,
\* with the config repointed and the instance id as session id; extraction
\* and scoring follow a terminal state that is not None; and the returned
\* test_result is the score of that state's last agent message against the
\* instance's correct_solution.
C8_StateMachine == [](C8_Inv) /\ [][C8_Step]_vars

\* A call returned a record scored true, for a message whose first marker
\* holds the correct letter between whitespace.
C8_Witness ==
    /\ pc = "returned"
    /\ frame.instance.correct_solution = <<"B">>
    /\ Len(frame.state.last_agent_message) > Len(OPEN \o <<"B">> \o CLOSE)
    /\ outcome.value.test_result = TRUE

\* C9: while the agent loop runs, both config fields are the path
\* <base_mount>/_eval_workspace/<process id>, base_mount being the mount path
\* of the config when the call started, and the directory exists; finding
\* the directory already there is not an error (FileExistsError is raised
\* only for a regular file standing at the path).
C9_WorkspaceWhileRunning ==
    /\ exc = "FileExistsError" =>
          /\ frame.workspace_mount_path \in files
          /\ frame.workspace_mount_path \notin fs
    /\ pc = "agent_running" =>
          LET expected == entry.config.workspace_mount_path
                             \o <<"_eval_workspace", ToString(pid)>>
          IN  /\ config.workspace_base = expected
              /\ config.workspace_mount_path = expected
              /\ expected \in fs

\* The agent loop runs in a call that found its directory made by an
\* earlier call.
C9_Witness ==
    /\ pc = "agent_running"
    /\ mkdir_existed
    /\ config.workspace_base = <<"mnt", "_eval_workspace", ToString(pid)>>
    /\ config.workspace_mount_path = config.workspace_base

----------------------------------------------------------------------------
(* The claim about process_instance in overlapping threads *)

AllExited == \A t \in Threads : tpc[t] = "exited"

ConfigAndPathsAsBefore ==
    /\ config = entry.config
    /\ \A t \in Threads :
          tframe[t].workspace_mount_path # Unset =>
              tframe[t].workspace_mount_path =
                  entry.config.workspace_mount_path
                      \o <<"_eval_workspace", ToString(pid)>>

\* C10 as written: under every interleaving, once all evaluations have
\* exited the config fields hold the values from before any of them started
\* and every workspace path is <original base_mount>/_eval_workspace/<pid>.
C10_AsWritten == AllExited => ConfigAndPathsAsBefore

\* C10, amended: the same holds under every interleaving in which no
\* evaluation is between its save (line 124) and its last restore (line 241)
\* while another one is.
C10_Serialized == AllExited /\ ~overlapped => ConfigAndPathsAsBefore

\* All threads repointed the config, one after the other, and have exited.
C10_Witness ==
    /\ AllExited
    /\ ~overlapped
    /\ \A t \in Threads : tframe[t].workspace_mount_path # Unset
    /\ \E t \in Threads : tframe[t].raised
    /\ entry.config.workspace_mount_path # entry.config.workspace_base

=============================================================================
